---- MODULE Spec2Model ----
(***************************************************************************)
(* A model of categorize_invoices.py: OCR text of invoice scans is         *)
(* classified by keyword (categorize_invoice), stripped of boilerplate     *)
(* lines (filter_description) and collected into one record per file       *)
(* (process_invoices), after a folder was picked from a menu               *)
(* (find_folders_with_images, display_folder_menu).                        *)
(*                                                                         *)
(* Python strings are modelled as sequences of one-character strings, so   *)
(* that lower(), strip(), split(), `in` and re.search are computed         *)
(* character by character.                                                 *)
(***************************************************************************)
EXTENDS Naturals, Sequences, FiniteSets, TLC

VARIABLES
    pc,                 \* where the run is
    text,               \* the text handed to categorize_invoice / filter_description
    categories,         \* the loaded category table (a JSON value)
    matched_categories, \* what categorize_invoice returned
    filtered_lines,     \* filter_description's local list
    description,        \* what filter_description returned
    config,             \* what categories.json holds
    tree,               \* the folders under 'invoices' and the files in each
    case_sensitive_fs,  \* whether Path.glob tells '*.jpg' from '*.JPG'
    folders,            \* what find_folders_with_images returned
    selected_folder,    \* what display_folder_menu returned
    invoice_files,      \* process_invoices' list of paths
    idx,                \* how many files of invoice_files are processed
    results,            \* process_invoices' list of records
    categorize_calls,   \* how often categorize_invoice was entered
    error,              \* the exception that ended the run, or "none"
    error_log           \* the files extract_text_from_image printed an error for

vars == <<pc, text, categories, matched_categories, filtered_lines, description,
          config, tree, case_sensitive_fs, folders, selected_folder,
          invoice_files, idx, results, categorize_calls, error, error_log>>

\* ------------------------------------------------------------------ bounds
MaxTextLen == 3
MaxLines == 3
MaxFiles == 3

\* ----------------------------------------------------------- Python strings
UpperCase == <<"A","B","C","D","E","F","G","H","I","J","K","L","M",
               "N","O","P","Q","R","S","T","U","V","W","X","Y","Z">>
LowerCase == <<"a","b","c","d","e","f","g","h","i","j","k","l","m",
               "n","o","p","q","r","s","t","u","v","w","x","y","z">>
Digits == {"0","1","2","3","4","5","6","7","8","9"}

\* The characters str.strip() and the pattern \s treat as white space.
IsSpace(c) == c \in {" ", "\t", "\r", "\n"}

\* One character of str.lower().
lower_char(c) ==
    IF \E i \in 1..Len(UpperCase) : UpperCase[i] = c
    THEN LowerCase[CHOOSE i \in 1..Len(UpperCase) : UpperCase[i] = c]
    ELSE c

\* str.lower()
str_lower(s) == [i \in 1..Len(s) |-> lower_char(s[i])]

\* s.startswith(sub, at i), positions counted from 1
starts_at(sub, s, i) ==
    /\ i + Len(sub) - 1 <= Len(s)
    /\ \A j \in 1..Len(sub) : s[i + j - 1] = sub[j]

\* s.endswith(sub)
str_endswith(s, sub) ==
    /\ Len(sub) <= Len(s)
    /\ SubSeq(s, Len(s) - Len(sub) + 1, Len(s)) = sub

RECURSIVE find_from(_, _, _)
find_from(sub, s, i) ==
    IF i + Len(sub) - 1 > Len(s) THEN FALSE
    ELSE IF starts_at(sub, s, i) THEN TRUE
    ELSE find_from(sub, s, i + 1)

\* Python's  sub in s
str_contains(sub, s) == find_from(sub, s, 1)

RECURSIVE lstrip(_)
lstrip(s) == IF s # <<>> /\ IsSpace(Head(s)) THEN lstrip(Tail(s)) ELSE s

RECURSIVE rstrip(_)
rstrip(s) ==
    IF s # <<>> /\ IsSpace(s[Len(s)]) THEN rstrip(SubSeq(s, 1, Len(s) - 1)) ELSE s

\* str.strip()
str_strip(s) == rstrip(lstrip(s))

RECURSIVE split_from(_, _, _)
split_from(s, i, cur) ==
    IF i > Len(s) THEN <<cur>>
    ELSE IF s[i] = "\n" THEN <<cur>> \o split_from(s, i + 1, <<>>)
    ELSE split_from(s, i + 1, Append(cur, s[i]))

\* text.split('\n'): always at least one line, the empty text gives ['']
str_split(s) == split_from(s, 1, <<>>)

RECURSIVE str_join(_, _)
\* sep.join(parts)
str_join(sep, parts) ==
    IF parts = <<>> THEN <<>>
    ELSE IF Len(parts) = 1 THEN parts[1]
    ELSE parts[1] \o sep \o str_join(sep, Tail(parts))

Range(f) == {f[i] : i \in DOMAIN f}

\* ------------------------------------------------------- categorize_invoice
\* A category table is the JSON object of categories.json in the order of its
\* keys: entries is a sequence of [name, value], value a JSON value
\* [kind, items]: a "list" of keyword strings, a "string" (items its
\* characters) or a "number".
ListOf(items) == [kind |-> "list", items |-> items]
Table(entries) == [kind |-> "object", entries |-> entries]

\* What  for keyword in keywords  yields: the items of a list, the
\* characters of a str.
iter_keywords(value) ==
    IF value.kind = "list" THEN value.items
    ELSE [i \in 1..Len(value.items) |-> <<value.items[i]>>]

\* if keyword.lower() in text
keyword_matches(keyword, t) == str_contains(str_lower(keyword), t)

RECURSIVE keyword_loop(_, _, _)
\* the inner loop with its break: does any keyword match
keyword_loop(keywords, t, k) ==
    IF k > Len(keywords) THEN FALSE
    ELSE IF keyword_matches(keywords[k], t) THEN TRUE
    ELSE keyword_loop(keywords, t, k + 1)

\* a slip: the category is put in front of the list
append_category_front(matched, category_name) == <<category_name>> \o matched

\* matched_categories.append(category_name)
append_category(matched, category_name) == Append(matched, category_name)

RECURSIVE category_loop(_, _, _, _)
\* the outer loop over categories.items(); iterating a number raises TypeError
category_loop(t, entries, k, matched) ==
    IF k > Len(entries) THEN [error |-> "none", value |-> matched]
    ELSE IF entries[k].value.kind = "number"
    THEN [error |-> "TypeError", value |-> <<>>]
    ELSE category_loop(t, entries, k + 1,
             IF keyword_loop(iter_keywords(entries[k].value), t, 1)
             THEN append_category(matched, entries[k].name)
             ELSE matched)

\* a slip: the list is returned as it is, empty or not
fallback_none(matched) == matched

\* return matched_categories if matched_categories else ["Uncategorized"]
fallback(matched) == IF matched # <<>> THEN matched ELSE <<"Uncategorized">>

\* categorize_invoice(text, categories): [error, value]; a table that is
\* not an object has no .items() and raises AttributeError
categorize_invoice(t, cats) ==
    IF cats.kind # "object" THEN [error |-> "AttributeError", value |-> <<>>]
    ELSE LET r == category_loop(t, cats.entries, 1, <<>>)
         IN  IF r.error # "none" THEN r
             ELSE [error |-> "none", value |-> fallback(r.value)]

\* --------------------------------------------- inputs of categorize_invoice
ClassifyChars == {"a", "A", "b", "B"}
ClassifyTexts == UNION {[1..n -> ClassifyChars] : n \in 0..MaxTextLen}

\* keyword lists a table may give a category
KeywordLists ==
    { <<>>,
      << <<"a">> >>,
      << <<"A">> >>,
      << <<"b">>, <<"a">> >>,
      << <<"a", "b">> >>,
      << <<"B", "a">>, <<"b", "b">> >>,
      << <<>> >> }

CategoryNames == {"Zeta", "Alpha"}

\* tables of at most two categories, in either key order
ClassifyTables ==
    {Table(<<>>)}
    \cup {Table(<<[name |-> n, value |-> ListOf(l)]>>) :
              n \in CategoryNames, l \in KeywordLists}
    \cup {Table(<<[name |-> n, value |-> ListOf(l)],
                  [name |-> CHOOSE m \in CategoryNames : m # n, value |-> ListOf(l2)]>>) :
              n \in CategoryNames, l \in KeywordLists, l2 \in KeywordLists}

\* ------------------------------------------------------- filter_description
\* the words of the skip patterns
w_invoice == <<"i", "n", "v", "o", "i", "c", "e">>
w_no == <<"n", "o">>
w_number == <<"n", "u", "m", "b", "e", "r">>
w_hash == <<"#">>
w_date == <<"d", "a", "t", "e">>
w_tax == <<"t", "a", "x">>
w_id == <<"i", "d">>
w_iban == <<"i", "b", "a", "n">>
w_swift == <<"s", "w", "i", "f", "t">>
w_bill == <<"b", "i", "l", "l">>
w_to == <<"t", "o">>
w_ship == <<"s", "h", "i", "p">>
w_payment == <<"p", "a", "y", "m", "e", "n", "t">>
w_terms == <<"t", "e", "r", "m", "s">>
w_due == <<"d", "u", "e">>
w_customer == <<"c", "u", "s", "t", "o", "m", "e", "r">>
w_order == <<"o", "r", "d", "e", "r">>

\* A pattern is a sequence of items [t, lits, n]:
\*   "lit"    the literal lits[1]            "alt"    one of lits, (a|b|c)
\*   "ws"     \s*                            "digits" \d{n}
\*   "bol"    ^                              "eol"    $
Lit(w) == [t |-> "lit", lits |-> <<w>>, n |-> 0]
Alt(ws) == [t |-> "alt", lits |-> ws, n |-> 0]
Ws == [t |-> "ws", lits |-> <<>>, n |-> 0]
DigitsN(n) == [t |-> "digits", lits |-> <<>>, n |-> n]
Bol == [t |-> "bol", lits |-> <<>>, n |-> 0]
Eol == [t |-> "eol", lits |-> <<>>, n |-> 0]

\* the list skip_patterns
skip_patterns ==
    << <<Lit(w_invoice), Ws, Alt(<<w_no, w_number, w_hash>>)>>,
       <<Lit(w_date)>>,
       <<Lit(w_tax), Ws, Lit(w_id)>>,
       <<Lit(w_iban)>>,
       <<Lit(w_swift)>>,
       <<Lit(w_bill), Ws, Lit(w_to)>>,
       <<Lit(w_ship), Ws, Lit(w_to)>>,
       <<Lit(w_payment), Ws, Lit(w_terms)>>,
       <<Lit(w_due), Ws, Lit(w_date)>>,
       <<Lit(w_customer), Ws, Alt(<<w_no, w_id>>)>>,
       <<Lit(w_order), Ws, Alt(<<w_no, w_number>>)>>,
       <<DigitsN(4), Lit(<<"-">>), DigitsN(2), Lit(<<"-">>), DigitsN(2)>>,
       <<Bol, Ws, Eol>> >>

RECURSIVE match_here(_, _, _, _)
\* whether the items k.. of pattern pat match s from position i on
match_here(pat, k, s, i) ==
    IF k > Len(pat) THEN TRUE
    ELSE LET it == pat[k]
         IN  CASE it.t = "lit" ->
                      /\ starts_at(it.lits[1], s, i)
                      /\ match_here(pat, k + 1, s, i + Len(it.lits[1]))
               [] it.t = "alt" ->
                      \E a \in 1..Len(it.lits) :
                          /\ starts_at(it.lits[a], s, i)
                          /\ match_here(pat, k + 1, s, i + Len(it.lits[a]))
               [] it.t = "ws" ->
                      \/ match_here(pat, k + 1, s, i)
                      \/ /\ i <= Len(s)
                         /\ IsSpace(s[i])
                         /\ match_here(pat, k, s, i + 1)
               [] it.t = "digits" ->
                      /\ i + it.n - 1 <= Len(s)
                      /\ \A j \in 0..(it.n - 1) : s[i + j] \in Digits
                      /\ match_here(pat, k + 1, s, i + it.n)
               [] it.t = "bol" ->
                      /\ i = 1
                      /\ match_here(pat, k + 1, s, i)
               [] it.t = "eol" ->
                      /\ \/ i = Len(s) + 1
                         \/ i = Len(s) /\ s[i] = "\n"
                      /\ match_here(pat, k + 1, s, i)

\* a slip: re.match, which looks at the start of the line only
re_match(pat, s) == match_here(pat, 1, s, 1)

\* re.search(pattern, s): a match starting anywhere
re_search(pat, s) == \E i \in 1..(Len(s) + 1) : match_here(pat, 1, s, i)

\* a slip: the loop is left after its first turn, matched or not
pattern_loop_first(patterns, line_lower, k) == re_search(patterns[1], line_lower)

RECURSIVE pattern_loop(_, _, _)
\* the loop over skip_patterns with its break: should_skip
pattern_loop(patterns, line_lower, k) ==
    IF k > Len(patterns) THEN FALSE
    ELSE IF re_search(patterns[k], line_lower) THEN TRUE
    ELSE pattern_loop(patterns, line_lower, k + 1)

\* a slip: the lowercased line is what is kept
kept_line_lower(line) == str_strip(str_lower(line))

\* filtered_lines.append(line.strip())
kept_line(line) == str_strip(line)

\* if not line_lower: continue
line_is_blank(line_lower) == line_lower = <<>>

RECURSIVE line_loop(_, _, _)
\* the loop over the lines
line_loop(lines, k, filtered) ==
    IF k > Len(lines) THEN filtered
    ELSE LET line_lower == str_strip(str_lower(lines[k]))
         IN  IF line_is_blank(line_lower)
             THEN line_loop(lines, k + 1, filtered)
             ELSE IF pattern_loop(skip_patterns, line_lower, 1)
             THEN line_loop(lines, k + 1, filtered)
             ELSE line_loop(lines, k + 1, Append(filtered, kept_line(lines[k])))

\* filtered_lines when the loop is over
filter_lines(t) == line_loop(str_split(t), 1, <<>>)

\* a slip: the lines are joined with nothing between them
join_lines_no_space(lines) == str_join(<<>>, lines)

\* ' '.join(filtered_lines)
join_lines(lines) == str_join(<<" ">>, lines)

\* filter_description(text)
filter_description(t) == join_lines(filter_lines(t))

\* ------------------------------------------------------------- idle values
NoTable == [kind |-> "none", entries |-> <<>>]
NoFolder == [full_path |-> "none", image_count |-> 0]

PipelineIdle ==
    /\ config = NoTable
    /\ tree = <<>>
    /\ case_sensitive_fs = TRUE
    /\ folders = <<>>
    /\ selected_folder = NoFolder
    /\ invoice_files = <<>>
    /\ idx = 0
    /\ results = <<>>
    /\ categorize_calls = 0
    /\ error = "none"
    /\ error_log = <<>>

PipelineUnchanged ==
    UNCHANGED <<config, tree, case_sensitive_fs, folders, selected_folder,
                invoice_files, idx, results, categorize_calls, error, error_log>>

\* ------------------------------------- categorize_invoice on its own inputs
InitClassify ==
    /\ pc = "classify"
    /\ text \in ClassifyTexts
    /\ categories \in ClassifyTables
    /\ matched_categories = <<>>
    /\ filtered_lines = <<>>
    /\ description = <<>>
    /\ PipelineIdle

Classify ==
    /\ pc = "classify"
    /\ matched_categories' = categorize_invoice(text, categories).value
    /\ pc' = "classified"
    /\ UNCHANGED <<text, categories, filtered_lines, description>>
    /\ PipelineUnchanged

NextClassify == Classify

SpecClassify == InitClassify /\ [][NextClassify]_vars

\* --------------------------------------------- inputs of filter_description
\* A text is either one probe line (a first word, a gap and a second word,
\* which between them give every skip pattern and its near misses) or at
\* most MaxLines sample lines joined by "\n".
FirstWords ==
    { <<"I", "n", "v", "o", "i", "c", "e">>,
      <<"T", "a", "x">>,
      <<"B", "i", "l", "l">>,
      <<"S", "h", "i", "p">>,
      <<"P", "a", "y", "m", "e", "n", "t">>,
      <<"D", "u", "e">>,
      <<"C", "u", "s", "t", "o", "m", "e", "r">>,
      <<"O", "r", "d", "e", "r">>,
      <<"U", "p">>,
      <<"I", "B", "A", "N">>,
      <<"S", "w", "i", "f", "t">>,
      <<"W", "i", "d", "g", "e", "t">>,
      <<>> }
Gaps ==
    { <<>>,
      <<" ">>,
      <<" ", "\t">> }
SecondWords ==
    { <<"N", "o">>,
      <<"N", "u", "m", "b", "e", "r">>,
      <<"#">>,
      <<"I", "D">>,
      <<"T", "o">>,
      <<"T", "e", "r", "m", "s">>,
      <<"d", "a", "t", "e">>,
      <<"2", "0", "2", "4", "-", "0", "3", "-", "1", "5">>,
      <<"2", "0", "2", "4", "-", "3", "-", "1", "5">>,
      <<"R", "e", "p", "a", "i", "r">>,
      <<>> }
ProbeLines == {a \o g \o b : a \in FirstWords, g \in Gaps, b \in SecondWords}
SampleLines ==
    { <<>>,
      <<" ", " ", "W", "i", "d", "g", "e", "t", " ", "R", "e", "p", "a", "i", "r", "\t">>,
      <<"D", "u", "e", " ", "2", "0", "2", "4", "-", "0", "3", "-", "1", "5", " ", "f", "o", "r", " ", "s", "e", "r", "v", "i", "c", "e", "s">>,
      <<"U", "p", "d", "a", "t", "e">>,
      <<"T", "a", "x", " ", "I", "D", ":", " ", "9", "9", "-", "1", "2", "3", "4", "5", "6", "7">>,
      <<" ", "\t">>,
      <<"O", "r", "d", "e", "r", " ", "#", "7", " ">> }

SampleTexts ==
    {str_join(<<"\n">>, ls) : ls \in UNION {[1..n -> SampleLines] : n \in 1..MaxLines}}
FilterTexts == ProbeLines \cup SampleTexts

\* ------------------------------------- filter_description on its own inputs
InitFilter ==
    /\ pc = "filter"
    /\ text \in FilterTexts
    /\ categories = NoTable
    /\ matched_categories = <<>>
    /\ filtered_lines = <<>>
    /\ description = <<>>
    /\ PipelineIdle

Filter ==
    /\ pc = "filter"
    /\ filtered_lines' = filter_lines(text)
    /\ description' = filter_description(text)
    /\ pc' = "filtered"
    /\ UNCHANGED <<text, categories, matched_categories>>
    /\ PipelineUnchanged

NextFilter == Filter

SpecFilter == InitFilter /\ [][NextFilter]_vars

\* ----------------------------------------------------------- the pipeline
\* The directories os.walk('invoices') visits, in the order of their paths.
FolderPaths == <<"invoices", "invoices/scans">>

FileNames ==
    { <<"a", ".", "j", "p", "g">>,
      <<"b", ".", "p", "n", "g">>,
      <<"c", ".", "j", "p", "e", "g">>,
      <<"d", ".", "J", "P", "G">>,
      <<"e", ".", "t", "x", "t">> }

\* extensions=('.jpg', '.png', '.jpeg')
extensions == <<<<".", "j", "p", "g">>, <<".", "p", "n", "g">>, <<".", "j", "p", "e", "g">>>>

\* f.lower().endswith(extensions)
is_image(f) == \E e \in 1..Len(extensions) : str_endswith(str_lower(f), extensions[e])

\* sum(1 for f in filenames if f.lower().endswith(extensions))
image_count(filenames) == Cardinality({f \in filenames : is_image(f)})

RECURSIVE walk(_, _)
\* find_folders_with_images: one entry per directory that has an image file,
\* sorted by full_path (FolderPaths is in that order)
walk(files_of, d) ==
    IF d > Len(FolderPaths) THEN <<>>
    ELSE IF \E f \in files_of[d] : is_image(f)
    THEN <<[full_path |-> FolderPaths[d], image_count |-> image_count(files_of[d])]>>
             \o walk(files_of, d + 1)
    ELSE walk(files_of, d + 1)

find_folders_with_images(files_of) == walk(files_of, 1)

\* Path(invoice_dir).glob('*' + ext): the names ending in ext, by the case
\* of the letters where the platform's paths tell it (POSIX), without it
\* where they do not (Windows)
glob(filenames, ext, case_sensitive) ==
    {f \in filenames :
         IF case_sensitive THEN str_endswith(f, ext)
         ELSE str_endswith(str_lower(f), str_lower(ext))}

\* the orders a directory listing may come in
Orders(S) == {o \in [1..Cardinality(S) -> S] : \A i, j \in 1..Cardinality(S) : i # j => o[i] # o[j]}

\* categories.json: absent, not JSON, or a JSON value
Configs ==
    { [kind |-> "missing", entries |-> <<>>],
      [kind |-> "malformed", entries |-> <<>>],
      [kind |-> "array", entries |-> <<>>],
      Table(<<>>),
      Table(<<[name |-> "Vendor", value |-> ListOf(<<<<"a", "c", "m", "e">>>>)],
              [name |-> "Travel", value |-> ListOf(<<<<"t", "a", "x", "i">>, <<"F", "u", "e", "l">>>>)]>>),
      Table(<<[name |-> "Misc", value |-> ListOf(<< <<>> >>)]>>),
      Table(<<[name |-> "Vendor", value |-> [kind |-> "number", items |-> <<>>]]>>),
      Table(<<[name |-> "Vendor", value |-> [kind |-> "string", items |-> <<"a", "c", "m", "e">>]]>>) }

\* load_categories(): open() and json.load() raise for a file that is absent
\* or is not JSON; whatever JSON value the file holds is returned as it is
load_categories(file) ==
    IF file.kind = "missing" THEN [error |-> "FileNotFoundError", value |-> NoTable]
    ELSE IF file.kind = "malformed" THEN [error |-> "JSONDecodeError", value |-> NoTable]
    ELSE [error |-> "none", value |-> file]

\* what the OCR of one image gives: a text, or an exception
OcrOutcomes ==
    { [ok |-> TRUE, raw |-> <<"A", "C", "M", "E", " ", "F", "u", "e", "l", "\n", "T", "a", "x", " ", "I", "D", " ", "7">>],
      [ok |-> TRUE, raw |-> <<"T", "a", "x", "i", " ", "1", "2", "\n">>],
      [ok |-> FALSE, raw |-> <<>>] }

\* extract_text_from_image: text.lower(), or "" when anything was raised
extract_text_from_image(ocr) == IF ocr.ok THEN str_lower(ocr.raw) ELSE <<>>

\* a slip: the description is stored as the full text
make_result_text_lost(name, matched, desc, t) ==
    [filename |-> name, categories |-> matched, description |-> desc, full_text |-> desc]

\* result = {'filename': ..., 'categories': ..., 'description': ..., 'full_text': ...}
make_result(name, matched, desc, t) ==
    [filename |-> name, categories |-> matched, description |-> desc, full_text |-> t]

Trees ==
    {tr \in [1..Len(FolderPaths) -> SUBSET FileNames] :
         Cardinality(tr[1]) + Cardinality(tr[2]) <= MaxFiles}

Init ==
    /\ pc = "main"
    /\ config \in Configs
    /\ tree \in Trees
    /\ case_sensitive_fs \in BOOLEAN
    /\ text = <<>>
    /\ categories = NoTable
    /\ matched_categories = <<>>
    /\ filtered_lines = <<>>
    /\ description = <<>>
    /\ folders = <<>>
    /\ selected_folder = NoFolder
    /\ invoice_files = <<>>
    /\ idx = 0
    /\ results = <<>>
    /\ categorize_calls = 0
    /\ error = "none"
    /\ error_log = <<>>

\* main: folders = find_folders_with_images(); exit(1) when there is none
FindFolders ==
    /\ pc = "main"
    /\ folders' = find_folders_with_images(tree)
    /\ pc' = IF folders' = <<>> THEN "exit_no_folders" ELSE "menu"
    /\ UNCHANGED <<text, categories, matched_categories, filtered_lines, description,
                   config, tree, case_sensitive_fs, selected_folder, invoice_files,
                   idx, results, categorize_calls, error, error_log>>

\* display_folder_menu: a number of the menu selects that folder (any other
\* input but 'q' asks again and changes nothing)
SelectFolder ==
    /\ pc = "menu"
    /\ \E choice \in 1..Len(folders) :
           selected_folder' = folders[choice]
    /\ pc' = "process"
    /\ UNCHANGED <<text, categories, matched_categories, filtered_lines, description,
                   config, tree, case_sensitive_fs, folders, invoice_files,
                   idx, results, categorize_calls, error, error_log>>

\* display_folder_menu: 'q' or an interrupt returns None, and main exits
QuitMenu ==
    /\ pc = "menu"
    /\ pc' = "exit_quit"
    /\ UNCHANGED <<text, categories, matched_categories, filtered_lines, description,
                   config, tree, case_sensitive_fs, folders, selected_folder,
                   invoice_files, idx, results, categorize_calls, error, error_log>>

\* the directory selected_folder names
SelectedDir == CHOOSE d \in 1..Len(FolderPaths) : FolderPaths[d] = selected_folder.full_path

\* process_invoices up to its loop: the table is loaded, the files are listed
LoadAndList ==
    /\ pc = "process"
    /\ LET loaded == load_categories(config)
       IN  IF loaded.error # "none"
           THEN /\ pc' = "raised"
                /\ error' = loaded.error
                /\ UNCHANGED <<categories, invoice_files>>
           ELSE /\ categories' = loaded.value
                /\ \E jpgs \in Orders(glob(tree[SelectedDir], extensions[1], case_sensitive_fs)),
                      pngs \in Orders(glob(tree[SelectedDir], extensions[2], case_sensitive_fs)) :
                       invoice_files' = jpgs \o pngs
                /\ pc' = IF invoice_files' = <<>> THEN "no_images" ELSE "loop"
                /\ UNCHANGED error
    /\ UNCHANGED <<text, matched_categories, filtered_lines, description,
                   config, tree, case_sensitive_fs, folders, selected_folder,
                   idx, results, categorize_calls, error_log>>

\* one turn of the loop of process_invoices
ProcessOne ==
    /\ pc = "loop"
    /\ idx < Len(invoice_files)
    /\ \E ocr \in OcrOutcomes :
           LET invoice_path == invoice_files[idx + 1]
               t == extract_text_from_image(ocr)
               matched == categorize_invoice(t, categories)
           IN  /\ text' = t
               /\ error_log' = IF ocr.ok THEN error_log ELSE Append(error_log, invoice_path)
               /\ categorize_calls' = categorize_calls + 1
               /\ IF matched.error # "none"
                  THEN /\ pc' = "raised"
                       /\ error' = matched.error
                       /\ UNCHANGED <<matched_categories, filtered_lines, description,
                                      results, idx>>
                  ELSE /\ matched_categories' = matched.value
                       /\ filtered_lines' = filter_lines(t)
                       /\ description' = filter_description(t)
                       /\ results' = Append(results,
                              make_result(invoice_path, matched.value, description', t))
                       /\ idx' = idx + 1
                       \* print(matched_categories[0])
                       /\ IF matched.value = <<>>
                          THEN pc' = "raised" /\ error' = "IndexError"
                          ELSE UNCHANGED <<pc, error>>
    /\ UNCHANGED <<categories, config, tree, case_sensitive_fs, folders,
                   selected_folder, invoice_files>>

\* process_invoices after its loop: the results are written
Save ==
    /\ pc = "loop"
    /\ idx = Len(invoice_files)
    /\ pc' = "saved"
    /\ UNCHANGED <<text, categories, matched_categories, filtered_lines, description,
                   config, tree, case_sensitive_fs, folders, selected_folder,
                   invoice_files, idx, results, categorize_calls, error, error_log>>

Next ==
    \/ FindFolders
    \/ SelectFolder
    \/ QuitMenu
    \/ LoadAndList
    \/ ProcessOne
    \/ Save

Spec == Init /\ [][Next]_vars

\* ------------------------------------------ claims about categorize_invoice
\* sub occurs in s, stated by position
Occurs(sub, s) ==
    \E i \in 1..(Len(s) + 1) :
        /\ i + Len(sub) - 1 <= Len(s)
        /\ SubSeq(s, i, i + Len(sub) - 1) = sub

Keywords(k) == categories.entries[k].value.items

\* category k has a keyword whose lowercased form occurs in t
Hit(k, t) == \E j \in 1..Len(Keywords(k)) : Occurs(str_lower(Keywords(k)[j]), t)

NoKeywordOccurs == \A k \in 1..Len(categories.entries) : ~Hit(k, text)

\* C1: categorize_invoice returns a non-empty list for every text and table,
\* and exactly ["Uncategorized"] whenever no keyword of any category occurs
\* in the text (a keyword occurs when its lowercased form is a substring).
C1_NeverEmptyUncategorizedWhenNoKeyword ==
    pc = "classified" =>
        /\ matched_categories # <<>>
        /\ NoKeywordOccurs => matched_categories = <<"Uncategorized">>

\* C1's case: a table with keywords, a non-empty text none of them occurs in
C1_Witness ==
    /\ pc = "classified"
    /\ text # <<>>
    /\ Len(categories.entries) = 2
    /\ \A k \in 1..2 : Keywords(k) # <<>>
    /\ NoKeywordOccurs
    /\ matched_categories = <<"Uncategorized">>

\* C2: matching is case-insensitive whatever the letter case of the text:
\* a category with a keyword whose lowercased form occurs in the lowercased
\* text is in the result.
C2_CaseInsensitiveForEveryText ==
    pc = "classified" =>
        \A k \in 1..Len(categories.entries) :
            Hit(k, str_lower(text)) =>
                categories.entries[k].name \in Range(matched_categories)

\* the place of a category name in the table
TablePos(n) == CHOOSE k \in 1..Len(categories.entries) : categories.entries[k].name = n

\* C3: when keywords of categories occur in the text, the result lists every
\* matching category exactly once, in the order of the table.
C3_EveryMatchOnceInTableOrder ==
    (pc = "classified" /\ ~NoKeywordOccurs) =>
        /\ \A k \in 1..Len(categories.entries) :
               Hit(k, text) <=> categories.entries[k].name \in Range(matched_categories)
        /\ \A i, j \in 1..Len(matched_categories) :
               i < j => /\ matched_categories[i] # matched_categories[j]
                        /\ TablePos(matched_categories[i]) < TablePos(matched_categories[j])
        /\ Range(matched_categories) \subseteq {categories.entries[k].name : k \in 1..Len(categories.entries)}

\* C3's case: the table lists Zeta before Alpha, two keywords of Zeta occur,
\* and Alpha's keyword occurs in the text before Zeta's first keyword does
C3_Witness ==
    /\ pc = "classified"
    /\ text = <<"a", "b">>
    /\ Len(categories.entries) = 2
    /\ categories.entries[1].name = "Zeta"
    /\ Keywords(1) = << <<"b">>, <<"a">> >>
    /\ Keywords(2) = << <<"a">> >>
    /\ matched_categories = <<"Zeta", "Alpha">>

\* ------------------------------------------ claims about filter_description
\* The lines of t, stated by the places of its line breaks.
Breaks(t) == {i \in 1..Len(t) : t[i] = "\n"}
BreakNo(t, k) ==
    IF k = 0 THEN 0
    ELSE IF k > Cardinality(Breaks(t)) THEN Len(t) + 1
    ELSE CHOOSE b \in Breaks(t) : Cardinality({c \in Breaks(t) : c <= b}) = k
LineCount(t) == Cardinality(Breaks(t)) + 1
LineNo(t, k) == SubSeq(t, BreakNo(t, k - 1) + 1, BreakNo(t, k) - 1)

\* l without its leading and trailing white space, stated by position
Inked(l) == {i \in 1..Len(l) : ~IsSpace(l[i])}
Trimmed(l) ==
    IF Inked(l) = {} THEN <<>>
    ELSE SubSeq(l, CHOOSE i \in Inked(l) : \A j \in Inked(l) : i <= j,
                   CHOOSE i \in Inked(l) : \A j \in Inked(l) : j <= i)

\* somewhere in l: the word a, then white space only, then the word b
Label(l, a, b) ==
    \E i \in 1..Len(l) :
        /\ i + Len(a) - 1 <= Len(l)
        /\ SubSeq(l, i, i + Len(a) - 1) = a
        /\ \E j \in (i + Len(a))..Len(l) :
               /\ j + Len(b) - 1 <= Len(l)
               /\ \A m \in (i + Len(a))..(j - 1) : IsSpace(l[m])
               /\ SubSeq(l, j, j + Len(b) - 1) = b

\* somewhere in l: a token dddd-dd-dd
IsoDate(l) ==
    \E i \in 1..Len(l) :
        /\ i + 9 <= Len(l)
        /\ \A j \in {0, 1, 2, 3, 5, 6, 8, 9} : l[i + j] \in Digits
        /\ l[i + 4] = "-"
        /\ l[i + 7] = "-"

\* the 13 boilerplate patterns, on a lowercased trimmed line
Boilerplate(l) ==
    \/ \E b \in {w_no, w_number, w_hash} : Label(l, w_invoice, b)
    \/ Occurs(w_date, l)
    \/ Label(l, w_tax, w_id)
    \/ Occurs(w_iban, l)
    \/ Occurs(w_swift, l)
    \/ Label(l, w_bill, w_to)
    \/ Label(l, w_ship, w_to)
    \/ Label(l, w_payment, w_terms)
    \/ Label(l, w_due, w_date)
    \/ \E b \in {w_no, w_id} : Label(l, w_customer, b)
    \/ \E b \in {w_no, w_number} : Label(l, w_order, b)
    \/ IsoDate(l)
    \/ \A i \in 1..Len(l) : IsSpace(l[i])

\* line k of t is to be dropped
Dropped(t, k) ==
    LET l == Trimmed(LineNo(t, k))
    IN  \/ l = <<>>
        \/ Boilerplate(str_lower(l))

Retained(t) == {k \in 1..LineCount(t) : ~Dropped(t, k)}

\* the retained lines of t in their order, each trimmed and in the case it
\* was written in
RetainedLines(t) ==
    LET r == Retained(t)
    IN  [n \in 1..Cardinality(r) |->
            Trimmed(LineNo(t, CHOOSE k \in r : Cardinality({m \in r : m <= k}) = n))]

\* C4: a line is dropped as a whole, and dropped if and only if it is empty
\* after trimming or its lowercased trimmed form contains a match of one of
\* the 13 patterns; every other line is retained.
C4_DropsExactlyBlankAndBoilerplateLines ==
    pc = "filtered" => filtered_lines = RetainedLines(text)

\* C4's case: a line "Update" and a line with an ISO date in it are dropped,
\* a line between them is retained
C4_Witness ==
    /\ pc = "filtered"
    /\ LineCount(text) = 3
    /\ LineNo(text, 1) = <<"U", "p", "d", "a", "t", "e">>
    /\ Retained(text) = {2}
    /\ Occurs(<<"2", "0", "2", "4", "-", "0", "3", "-", "1", "5">>, LineNo(text, 3))
    /\ Len(filtered_lines) = 1

RECURSIVE LenSum(_, _)
\* the lengths of the first n parts and of a space after each
LenSum(parts, n) == IF n = 0 THEN 0 ELSE LenSum(parts, n - 1) + Len(parts[n]) + 1

\* C5: the description is the retained lines in their order in the text,
\* each trimmed and in its original letter case, with exactly one space
\* between two of them.
C5_DescriptionIsRetainedLinesSpaceJoined ==
    pc = "filtered" =>
        LET parts == RetainedLines(text)
            n == Len(parts)
        IN  /\ Len(description) = IF n = 0 THEN 0 ELSE LenSum(parts, n) - 1
            /\ \A k \in 1..n :
                   /\ SubSeq(description, LenSum(parts, k - 1) + 1,
                             LenSum(parts, k) - 1) = parts[k]
                   /\ k < n => description[LenSum(parts, k)] = " "

\* C5's case: two lines are retained, around a dropped one, the first of
\* them with capitals and with white space around it
C5_Witness ==
    /\ pc = "filtered"
    /\ Retained(text) = {1, 3}
    /\ LineNo(text, 1) # Trimmed(LineNo(text, 1))
    /\ str_lower(LineNo(text, 1)) # LineNo(text, 1)
    /\ Len(description) = Len(Trimmed(LineNo(text, 1))) + 1 + Len(Trimmed(LineNo(text, 3)))

\* C6: filter_description returns a string for every text: the empty string
\* for the empty text and for a text whose lines are all blank or
\* boilerplate, and always characters of the text and joining spaces.
C6_TotalAndEmptyWhenAllFiltered ==
    pc = "filtered" =>
        /\ text = <<>> => description = <<>>
        /\ Retained(text) = {} => description = <<>>
        /\ \A i \in 1..Len(description) : description[i] \in Range(text) \cup {" "}

\* C6's case: several lines, blank ones and boilerplate ones, and nothing left
C6_Witness ==
    /\ pc = "filtered"
    /\ LineCount(text) >= 2
    /\ \E k \in 1..LineCount(text) : Trimmed(LineNo(text, k)) = <<>>
    /\ \E k \in 1..LineCount(text) : Trimmed(LineNo(text, k)) # <<>>
    /\ Retained(text) = {}
    /\ description = <<>>

\* ------------------------------------------------ claims about the pipeline
\* the table of categories.json lacks the required structure: it is no
\* object, or a category of it is mapped to something that is no list
LacksStructure(file) ==
    \/ file.kind = "array"
    \/ /\ file.kind = "object"
       /\ \E k \in 1..Len(file.entries) : file.entries[k].value.kind # "list"

\* C7: a table that lacks the required structure fails at load time, and in
\* that run no document is classified: process_invoices does not get past
\* loading, categorize_invoice is not called, no record is produced.
C7_MalformedTableFailsAtLoad ==
    LacksStructure(config) =>
        /\ pc \notin {"loop", "no_images", "saved"}
        /\ categorize_calls = 0
        /\ results = <<>>

\* C8: when the OCR of a document fails the run does not fail, and the
\* document's record has the categories ["Uncategorized"] and an empty
\* description, whatever table load_categories returned.
C8_OcrFailureGivesUncategorized ==
    /\ \A i \in 1..Len(results) :
           results[i].filename \in Range(error_log) =>
               /\ results[i].categories = <<"Uncategorized">>
               /\ results[i].description = <<>>
    /\ ~ /\ pc = "raised"
         /\ categorize_calls > 0
         /\ invoice_files[idx + 1] \in Range(error_log)

\* the records are those of the files processed so far, in their order,
\* each computed from its own text
RecordsFollowFiles ==
    /\ Len(results) = idx
    /\ idx <= Len(invoice_files)
    /\ pc = "saved" => idx = Len(invoice_files)
    /\ (pc = "loop" /\ idx > 0) => results[idx].full_text = text
    /\ \A i \in 1..Len(results) :
           /\ results[i].filename = invoice_files[i]
           /\ results[i].categories = categorize_invoice(results[i].full_text, categories).value
           /\ results[i].description = filter_description(results[i].full_text)

\* a step adds at most one record, at the end, and changes no earlier one
RecordsOnlyAppended ==
    /\ Len(results') \in {Len(results), Len(results) + 1}
    /\ \A i \in 1..Len(results) : results'[i] = results[i]

\* C9: one record per document in the order of iteration: after the i-th
\* document the list has i records, the i-th holds that document's filename,
\* text, and the categories and description of that text; earlier records
\* stay as they are.
C9_OneRecordPerDocumentInOrder == [](RecordsFollowFiles) /\ [][RecordsOnlyAppended]_vars

\* C9's case: three documents are processed and saved, with different texts
C9_Witness ==
    /\ pc = "saved"
    /\ Len(results) = 3
    /\ Len(categories.entries) = 2
    /\ results[1].full_text # results[2].full_text
    /\ results[2].description # results[2].full_text
    /\ results[1].categories # results[2].categories

\* C10: every image file counted in the menu's image_count is processed when
\* the folder is selected: as many records as image_count, and a folder of
\* the menu is never reported to have no image files.
C10_EveryCountedImageProcessed ==
    selected_folder # NoFolder =>
        /\ pc # "no_images"
        /\ pc = "saved" => Len(results) = selected_folder.image_count
====
